---- MODULE Spec2Model ----
(***************************************************************************)
(* Rule evaluation engine, phase driver and audit logger of coraza-waf.    *)
(*                                                                         *)
(* Strings that the engine computes on (collection values, operator        *)
(* arguments) are sequences of one-character strings, so that len(),       *)
(* strconv.Itoa and the transformations are computed.  Names (collection   *)
(* names, keys, action names) are plain strings.  An optional pointer      *)
(* (Rule.Chain, tx.Interruption) is a sequence of length 0 or 1.           *)
(***************************************************************************)
EXTENDS Integers, Sequences, FiniteSets, TLC

VARIABLES
    rules,      \* the compiled ruleset: sequence of head rules, declaration order
    tx,         \* the transaction under evaluation
    trace,      \* history of the engine's calls for this transaction
    lastCall,   \* target of the host's latest ExecutePhase call, 0 before the first
    mux,        \* ConcurrentLogger.mux: 0 when free, else the holder
    pc,         \* position of every WriteAudit caller
    wtx,        \* the transaction each caller writes
    dirs,       \* audit directories that exist
    files,      \* JSON file per audit path: "none", "partial" or "full"
    auditlog,   \* lines of the central audit file
    result      \* last return value of every WriteAudit caller

vars == <<rules, tx, trace, lastCall, mux, pc, wtx, dirs, files, auditlog, result>>
engineVars == <<rules, tx, trace, lastCall>>
auditVars == <<mux, pc, wtx, dirs, files, auditlog, result>>

----------------------------------------------------------------------------
(* Bounds *)

MaxChain == 2       \* longest chain (number of links after the head)
MaxArgs == 2        \* most entries in the args collection
MaxWriters == 2     \* concurrent WriteAudit callers
MaxLines == 2       \* most WriteAudit calls that reach the central audit file
MaxAuditTx == 2     \* transactions handed to the audit logger
MaxRules == 3       \* head rules in a ruleset for the phase driver
MaxRequests == 2    \* transactions evaluated one after the other on one ruleset

----------------------------------------------------------------------------
(* Program constants *)

ACTION_TYPE_METADATA == 1
ACTION_TYPE_DISRUPTIVE == 2
ACTION_TYPE_DATA == 3
ACTION_TYPE_NONDISRUPTIVE == 4
ACTION_TYPE_FLOW == 5

LastPhaseNumber == 5

----------------------------------------------------------------------------
(* Generic sequence helpers *)

RECURSIVE Flatten(_)
Flatten(ss) == IF ss = <<>> THEN <<>> ELSE Head(ss) \o Flatten(Tail(ss))

Range(s) == {s[i] : i \in DOMAIN s}

\* strconv.Itoa for the non-negative numbers the engine formats
Digit(n) == <<"0", "1", "2", "3", "4", "5", "6", "7", "8", "9">>[n + 1]

RECURSIVE Itoa(_)
Itoa(n) == IF n < 10 THEN <<Digit(n)>> ELSE Itoa(n \div 10) \o <<Digit(n % 10)>>

----------------------------------------------------------------------------
(* Transformations and operators (pluggable capabilities) *)

UpperCase ==
    <<"A", "B", "C", "D", "E", "F", "G", "H", "I", "J", "K", "L", "M",
      "N", "O", "P", "Q", "R", "S", "T", "U", "V", "W", "X", "Y", "Z">>

LowerCase ==
    <<"a", "b", "c", "d", "e", "f", "g", "h", "i", "j", "k", "l", "m",
      "n", "o", "p", "q", "r", "s", "t", "u", "v", "w", "x", "y", "z">>

LowerChar(c) ==
    IF \E i \in DOMAIN UpperCase : UpperCase[i] = c
    THEN LowerCase[CHOOSE i \in DOMAIN UpperCase : UpperCase[i] = c]
    ELSE c

Transform(name, value) ==
    CASE name = "lowercase" -> [i \in DOMAIN value |-> LowerChar(value[i])]
      [] name = "removeWhitespace" -> SelectSeq(value, LAMBDA c : c # " ")
      [] name = "length" -> Itoa(Len(value))
      [] OTHER -> value

IsInfix(needle, hay) ==
    \E i \in 0..(Len(hay) - Len(needle)) :
        \A j \in 1..Len(needle) : hay[i + j] = needle[j]

OperatorEvaluate(op, arg) ==
    CASE op.Operator = "streq" -> arg = op.Data
      [] op.Operator = "contains" -> IsInfix(op.Data, arg)
      [] op.Operator = "unconditionalMatch" -> TRUE
      [] OTHER -> FALSE

----------------------------------------------------------------------------
(* History of calls: one record per call the engine makes *)

Ev(e, rule, d, i, arg, raw, b, mds) ==
    [e |-> e, rule |-> rule, d |-> d, i |-> i, arg |-> arg, raw |-> raw,
     b |-> b, mds |-> mds, type |-> 0, name |-> "", snap |-> <<>>]

EvAction(rule, d, i, a, b) ==
    [e |-> "action", rule |-> rule, d |-> d, i |-> i, arg |-> <<>>, raw |-> FALSE,
     b |-> b, mds |-> <<>>, type |-> a.Type, name |-> a.Name, snap |-> <<>>]

\* entry to and return from Rule.Evaluate, with the transaction as it is then
EvEnter(rule, d, t) ==
    [e |-> "enter", rule |-> rule, d |-> d, i |-> 0, arg |-> <<>>, raw |-> FALSE,
     b |-> FALSE, mds |-> <<>>, type |-> 0, name |-> "", snap |-> <<t>>]

EvReturn(rule, d, t, ret) ==
    [e |-> "return", rule |-> rule, d |-> d, i |-> 0, arg |-> <<>>, raw |-> FALSE,
     b |-> FALSE, mds |-> ret, type |-> 0, name |-> "", snap |-> <<t>>]

EvSimple(e, rule, d) == Ev(e, rule, d, 0, <<>>, FALSE, FALSE, <<>>)

----------------------------------------------------------------------------
(* Transaction state store *)

CollectionNames ==
    {"args", "request_method", "tx", "matched_vars", "matched_var",
     "matched_var_name", "rule"}

EmptyMatchData == [Collection |-> "", Key |-> "", Value |-> <<>>]

NewTransaction(args, method) ==
    [Collections |->
        [c \in CollectionNames |->
            IF c = "args" THEN args
            ELSE IF c = "request_method" THEN <<[Key |-> "", Value |-> method]>>
            ELSE <<>>],
     RuleRemoveById |-> <<>>,
     RemovedTargets |-> <<>>,
     Interruption |-> <<>>,
     MatchedRules |-> <<>>,
     Capture |-> FALSE,
     LastPhase |-> 0]

GetRemovedTargets(t, id) ==
    LET mine == SelectSeq(t.RemovedTargets, LAMBDA c : c.RuleId = id)
    IN [i \in DOMAIN mine |-> [Name |-> mine[i].Name, Key |-> mine[i].Key]]

GetField(t, collection, key, exceptions) ==
    LET col == IF collection \in CollectionNames THEN t.Collections[collection] ELSE <<>>
        sel == SelectSeq(col, LAMBDA en :
                   /\ (key = "" \/ en.Key = key)
                   /\ en.Key \notin Range(exceptions))
    IN [i \in DOMAIN sel |->
           [Collection |-> collection, Key |-> sel[i].Key, Value |-> sel[i].Value]]

\* messages of the modelled rules contain no %{...} macro
MacroExpansion(t, text) == text

MatchVars(t, matched) ==
    LET last == matched[Len(matched)]
    IN [t EXCEPT
          !.Collections["matched_vars"] =
              [i \in DOMAIN matched |-> [Key |-> matched[i].Key, Value |-> matched[i].Value]],
          !.Collections["matched_var"] = <<[Key |-> "", Value |-> last.Value]>>,
          !.Collections["matched_var_name"] = <<[Key |-> last.Key, Value |-> <<>>]>>]

MatchRule(t, r, msgs, matched) ==
    [t EXCEPT
       !.MatchedRules = Append(@, [Id |-> r.Id, Messages |-> msgs, MatchedData |-> matched]),
       !.Collections["rule"] = <<[Key |-> "id", Value |-> Itoa(r.Id)]>>]

SetCapturable(t, flag) == [t EXCEPT !.Capture = flag]

Interrupted(t) == t.Interruption # <<>>

\* Interrupt without the test for an interruption already set: the last call wins
InterruptOverwrite(t, action, status, data, ruleId) ==
    [t EXCEPT !.Interruption =
        <<[Action |-> action, Status |-> status, Data |-> data, RuleId |-> ruleId]>>]

Interrupt(t, action, status, data, ruleId) ==
    IF t.Interruption = <<>>
    THEN [t EXCEPT !.Interruption =
             <<[Action |-> action, Status |-> status, Data |-> data, RuleId |-> ruleId]>>]
    ELSE t

----------------------------------------------------------------------------
(* Actions bound to a rule: [Type, Name, N, C, K, V] *)

Act(type, name, n, c, k, v) ==
    [Type |-> type, Name |-> name, N |-> n, C |-> c, K |-> k, V |-> v]

ActionEvaluate(a, r, t) ==
    CASE a.Name = "setvar" ->
            [t EXCEPT !.Collections["tx"] =
                Append(SelectSeq(@, LAMBDA en : en.Key # a.K), [Key |-> a.K, Value |-> a.V])]
      [] a.Name = "ctlRuleRemoveById" ->
            [t EXCEPT !.RuleRemoveById = Append(@, a.N)]
      [] a.Name = "ctlRuleRemoveTargetById" ->
            [t EXCEPT !.RemovedTargets = Append(@, [RuleId |-> a.N, Name |-> a.C, Key |-> a.K])]
      [] a.Name = "capture" -> SetCapturable(t, TRUE)
      [] a.Name = "deny" -> Interrupt(t, "deny", r.Status, "", r.Id)
      [] a.Name = "redirect" -> Interrupt(t, "redirect", 302, a.K, r.Id)
      [] OTHER -> t

----------------------------------------------------------------------------
(* Rule.Evaluate and its helpers *)

\* executeOperator without the branch that turns a failed test into a match
executeOperatorNoInvert(r, data, t) ==
    LET res == OperatorEvaluate(r.OperatorObj, data)
    IN IF r.OperatorObj.Negation /\ res THEN FALSE ELSE res

executeOperator(r, data, t) ==
    LET res == OperatorEvaluate(r.OperatorObj, data)
    IN IF r.OperatorObj.Negation /\ res THEN FALSE
       ELSE IF r.OperatorObj.Negation /\ ~res THEN TRUE
       ELSE res

RECURSIVE executeTransformationsMultimatch(_, _, _)
\* executeTransformationsMultimatch without "res = append(res, value)" in the loop
executeTransformationsMultimatchLast(r, value, i) ==
    IF i > Len(r.Transformations) THEN <<value>>
    ELSE executeTransformationsMultimatch(r, Transform(r.Transformations[i], value), i + 1)

executeTransformationsMultimatch(r, value, i) ==
    IF i > Len(r.Transformations) THEN <<value>>
    ELSE <<value>> \o
         executeTransformationsMultimatch(r, Transform(r.Transformations[i], value), i + 1)

RECURSIVE executeTransformations(_, _, _)
executeTransformations(r, value, i) ==
    IF i > Len(r.Transformations) THEN value
    ELSE executeTransformations(r, Transform(r.Transformations[i], value), i + 1)

\* results of steps that thread the transaction and the history
Then(log, rest) == [tx |-> rest.tx, log |-> log \o rest.log]

Collect(steps) ==
    [matched |-> Flatten([k \in DOMAIN steps |-> steps[k].matched]),
     log |-> Flatten([k \in DOMAIN steps |-> steps[k].log])]

\* "if r.executeOperator(carg, tx) { matchedValues = append(...) }"
OperatorStep(r, d, carg, raw, res, md) ==
    [matched |-> IF res THEN <<md>> ELSE <<>>,
     log |-> <<Ev("op", r.Id, d, 0, carg, raw, res, <<>>)>> \o
             (IF res THEN <<Ev("append", r.Id, d, 0, carg, raw, res, <<md>>)>> ELSE <<>>)]

\* the operator call on one transformed argument of the value arg
ArgStep(r, t, d, arg, carg) ==
    OperatorStep(r, d, carg, OperatorEvaluate(r.OperatorObj, carg),
                 executeOperator(r, carg, t),
                 [Collection |-> arg.Collection, Key |-> arg.Key, Value |-> carg])

EffectiveExceptions(v, ecol) ==
    LET mine == SelectSeq(ecol, LAMBDA c : c.Name = v.Collection)
    IN v.Exceptions \o [i \in DOMAIN mine |-> mine[i].Key]

\* CountValues without the case of a key with exactly one entry
CountValuesTotal(v, values) ==
    <<[Collection |-> v.Collection, Key |-> v.Key, Value |-> Itoa(Len(values))]>>

CountValues(v, values) ==
    IF v.Key # "" /\ Len(values) = 1
    THEN <<[values[1] EXCEPT !.Value = Itoa(Len(values[1].Value))]>>
    ELSE <<[Collection |-> v.Collection, Key |-> v.Key, Value |-> Itoa(Len(values))]>>

ResolveValues(t, v, exceptions) ==
    IF v.Count
    THEN CountValues(v, GetField(t, v.Collection, v.Key, exceptions))
    ELSE GetField(t, v.Collection, v.Key, exceptions)

TransformedArgs(r, value) ==
    IF r.MultiMatch
    THEN executeTransformationsMultimatch(r, value, 1)
    ELSE <<executeTransformations(r, value, 1)>>

ValueSteps(r, t, d, arg, args) == [j \in DOMAIN args |-> ArgStep(r, t, d, arg, args[j])]

\* MatchValues passing the empty string through the transformations
MatchValuesTransformed(r, t, d, values) ==
    IF Len(values) = 0
    THEN Collect(ValueSteps(r, t, d, EmptyMatchData, TransformedArgs(r, <<>>)))
    ELSE Collect(Flatten([k \in DOMAIN values |->
                    ValueSteps(r, t, d, values[k], TransformedArgs(r, values[k].Value))]))

\* the body of the loop over r.Variables, once the values are resolved
MatchValues(r, t, d, values) ==
    IF Len(values) = 0
    THEN OperatorStep(r, d, <<>>, OperatorEvaluate(r.OperatorObj, <<>>),
                      executeOperator(r, <<>>, t), EmptyMatchData)
    ELSE Collect(Flatten([k \in DOMAIN values |->
                    ValueSteps(r, t, d, values[k], TransformedArgs(r, values[k].Value))]))

VariableStep(r, t, d, v) ==
    MatchValues(r, t, d,
                ResolveValues(t, v, EffectiveExceptions(v, GetRemovedTargets(t, r.Id))))

MatchVariables(r, t, d) ==
    Collect([k \in DOMAIN r.Variables |-> VariableStep(r, t, d, r.Variables[k])])

\* the loops over r.Actions: every action whose type is in types, in order
RECURSIVE RunActions(_, _, _, _, _)

RunAction(r, t, d, types, i, after) ==
    Then(<<EvAction(r.Id, d, i, r.Actions[i], Interrupted(after) /\ ~Interrupted(t))>>,
         RunActions(r, after, d, types, i + 1))

RunActions(r, t, d, types, i) ==
    IF i > Len(r.Actions) THEN [tx |-> t, log |-> <<>>]
    ELSE IF r.Actions[i].Type \in types
    THEN RunAction(r, t, d, types, i, ActionEvaluate(r.Actions[i], r, t))
    ELSE RunActions(r, t, d, types, i + 1)

RECURSIVE Evaluate(_, _, _), ChainLoop(_, _, _)

\* ChainStep with "break" in place of "return": a failed link only ends the loop
ChainStepBreak(nr, acc, d, m) ==
    IF Len(m.ret) = 0
    THEN [acc EXCEPT !.tx = m.tx, !.log = @ \o m.log]
    ELSE ChainLoop(nr[1].Chain,
                   [tx |-> m.tx,
                    msgs |-> Append(acc.msgs, MacroExpansion(m.tx, nr[1].Msg)),
                    matched |-> acc.matched \o m.ret,
                    log |-> acc.log \o m.log,
                    failed |-> FALSE],
                   d)

\* one iteration of the loop "for nr != nil"; m is nr.Evaluate(tx)
ChainStep(nr, acc, d, m) ==
    IF Len(m.ret) = 0
    THEN [acc EXCEPT !.tx = m.tx, !.log = @ \o m.log, !.failed = TRUE]
    ELSE ChainLoop(nr[1].Chain,
                   [tx |-> m.tx,
                    msgs |-> Append(acc.msgs, MacroExpansion(m.tx, nr[1].Msg)),
                    matched |-> acc.matched \o m.ret,
                    log |-> acc.log \o m.log,
                    failed |-> FALSE],
                   d)

\* the chain loop; acc carries tx, msgs and matchedValues
ChainLoop(nr, acc, d) ==
    IF nr = <<>> THEN acc
    ELSE ChainStep(nr, acc, d, Evaluate(nr[1], acc.tx, d + 1))

\* "return matchedValues" after the disruptive and flow actions
HeadReturn(r, d, pre, ch, dis) ==
    [tx |-> dis.tx, ret |-> ch.matched,
     log |-> pre \o dis.log \o <<EvReturn(r.Id, d, dis.tx, ch.matched)>>]

\* the block "if r.ParentId == 0": tx.MatchRule if r.Log, then the actions
HeadActions(r, d, pre, ch) ==
    IF r.Log
    THEN HeadReturn(r, d, pre \o <<EvSimple("MatchRule", r.Id, d)>>, ch,
                    RunActions(r, MatchRule(ch.tx, r, ch.msgs, ch.matched), d,
                               {ACTION_TYPE_DISRUPTIVE, ACTION_TYPE_FLOW}, 1))
    ELSE HeadReturn(r, d, pre, ch,
                    RunActions(r, ch.tx, d, {ACTION_TYPE_DISRUPTIVE, ACTION_TYPE_FLOW}, 1))

\* AfterChain without the test "r.ParentId == 0"
AfterChainAnyRule(r, d, pre, ch) ==
    IF ch.failed
    THEN [tx |-> ch.tx, ret |-> <<>>,
          log |-> pre \o ch.log \o <<EvReturn(r.Id, d, ch.tx, <<>>)>>]
    ELSE HeadActions(r, d, pre \o ch.log, ch)

\* AfterChain returning the matches accumulated so far when the chain failed
AfterChainKeep(r, d, pre, ch) ==
    IF ch.failed
    THEN [tx |-> ch.tx, ret |-> ch.matched,
          log |-> pre \o ch.log \o <<EvReturn(r.Id, d, ch.tx, ch.matched)>>]
    ELSE IF r.ParentId = 0
    THEN HeadActions(r, d, pre \o ch.log, ch)
    ELSE [tx |-> ch.tx, ret |-> ch.matched,
          log |-> pre \o ch.log \o <<EvReturn(r.Id, d, ch.tx, ch.matched)>>]

\* after the chain loop
AfterChain(r, d, pre, ch) ==
    IF ch.failed
    THEN [tx |-> ch.tx, ret |-> <<>>,
          log |-> pre \o ch.log \o <<EvReturn(r.Id, d, ch.tx, <<>>)>>]
    ELSE IF r.ParentId = 0
    THEN HeadActions(r, d, pre \o ch.log, ch)
    ELSE [tx |-> ch.tx, ret |-> ch.matched,
          log |-> pre \o ch.log \o <<EvReturn(r.Id, d, ch.tx, ch.matched)>>]

\* tx.SetCapturable(false), the messages and the chain loop; nd is the result
\* of the non-disruptive actions
AfterNonDisruptive(r, t, d, vm, nd) ==
    AfterChain(r, d,
               <<EvEnter(r.Id, d, t)>> \o vm.log \o <<EvSimple("MatchVars", r.Id, d)>> \o
                   nd.log \o <<EvSimple("SetCapturable", r.Id, d)>>,
               ChainLoop(r.Chain,
                         [tx |-> SetCapturable(nd.tx, FALSE),
                          msgs |-> <<MacroExpansion(SetCapturable(nd.tx, FALSE), r.Msg)>>,
                          matched |-> vm.matched,
                          log |-> <<>>,
                          failed |-> FALSE],
                         d))

\* AfterVariables with the non-disruptive actions moved before the empty check
AfterVariablesEager(r, t, d, vm) ==
    IF Len(vm.matched) = 0
    THEN [tx |-> RunActions(r, t, d, {ACTION_TYPE_NONDISRUPTIVE}, 1).tx, ret |-> <<>>,
          log |-> <<EvEnter(r.Id, d, t)>> \o vm.log \o
                  RunActions(r, t, d, {ACTION_TYPE_NONDISRUPTIVE}, 1).log \o
                  <<EvReturn(r.Id, d, t, <<>>)>>]
    ELSE AfterNonDisruptive(r, t, d, vm,
             RunActions(r, MatchVars(t, vm.matched), d, {ACTION_TYPE_NONDISRUPTIVE}, 1))

\* from "if len(matchedValues) == 0" on; vm is the result of the variables loop
AfterVariables(r, t, d, vm) ==
    IF Len(vm.matched) = 0
    THEN [tx |-> t, ret |-> <<>>,
          log |-> <<EvEnter(r.Id, d, t)>> \o vm.log \o <<EvReturn(r.Id, d, t, <<>>)>>]
    ELSE AfterNonDisruptive(r, t, d, vm,
             RunActions(r, MatchVars(t, vm.matched), d, {ACTION_TYPE_NONDISRUPTIVE}, 1))

\* Evaluate without the loop over tx.RuleRemoveById
EvaluateNoSkip(r, t, d) == AfterVariables(r, t, d, MatchVariables(r, t, d))

Evaluate(r, t, d) ==
    IF r.Id \in Range(t.RuleRemoveById)
    THEN [tx |-> t, ret |-> <<>>,
          log |-> <<EvEnter(r.Id, d, t), EvReturn(r.Id, d, t, <<>>)>>]
    ELSE AfterVariables(r, t, d, MatchVariables(r, t, d))

----------------------------------------------------------------------------
(* The shared Rule records after an evaluation *)

\* "exceptions" aliasing v.Exceptions: the appended keys land in the rule's list
ExceptionsAfterShared(v, ecol) == EffectiveExceptions(v, ecol)

\* v.Exceptions after the loop body: the keys of the removed targets were
\* appended to the copy made by make and copy, the rule's own list is as before
ExceptionsAfter(v, ecol) == v.Exceptions

\* the record of r after r.Evaluate(t)
RuleAfter(r, t) ==
    IF r.Id \in Range(t.RuleRemoveById) THEN r
    ELSE [r EXCEPT !.Variables =
             [i \in DOMAIN r.Variables |->
                 [r.Variables[i] EXCEPT !.Exceptions =
                     ExceptionsAfter(r.Variables[i], GetRemovedTargets(t, r.Id))]]]

\* the rule with the given id, head or link, replaced by its record after Evaluate
RECURSIVE TouchRule(_, _, _)
TouchRule(r, id, t) ==
    [(IF r.Id = id THEN RuleAfter(r, t) ELSE r) EXCEPT
        !.Chain = IF @ = <<>> THEN <<>> ELSE <<TouchRule(@[1], id, t)>>]

\* the ruleset after the evaluations recorded in log, from the k-th event on
RECURSIVE RulesAfter(_, _, _)
RulesAfter(rs, log, k) ==
    IF k > Len(log) THEN rs
    ELSE IF log[k].e = "enter"
    THEN RulesAfter([i \in DOMAIN rs |-> TouchRule(rs[i], log[k].rule, log[k].snap[1])],
                    log, k + 1)
    ELSE RulesAfter(rs, log, k + 1)

----------------------------------------------------------------------------
(* Phase driver *)

RECURSIVE RunPhaseRules(_, _, _, _), RunPhases(_, _, _, _)

\* the i-th rule was evaluated with result m: on to the next rule
AfterRule(rs, p, i, m) == Then(m.log, RunPhaseRules(rs, m.tx, p, i + 1))

\* RunPhaseRules stopping at an interruption in phase 5 as in the phases before it
RunPhaseRulesStop(rs, t, p, i) ==
    IF i > Len(rs) THEN [tx |-> t, log |-> <<>>]
    ELSE IF /\ rs[i].Phase = p
            /\ rs[i].Id \notin Range(t.RuleRemoveById)
            /\ ~Interrupted(t)
    THEN AfterRule(rs, p, i, Evaluate(rs[i], t, 0))
    ELSE RunPhaseRules(rs, t, p, i + 1)

\* RunPhaseRules that goes on after an interruption
RunPhaseRulesOn(rs, t, p, i) ==
    IF i > Len(rs) THEN [tx |-> t, log |-> <<>>]
    ELSE IF /\ rs[i].Phase = p
            /\ rs[i].Id \notin Range(t.RuleRemoveById)
    THEN AfterRule(rs, p, i, Evaluate(rs[i], t, 0))
    ELSE RunPhaseRules(rs, t, p, i + 1)

\* the rules of phase p, from the i-th on, in declaration order
RunPhaseRules(rs, t, p, i) ==
    IF i > Len(rs) THEN [tx |-> t, log |-> <<>>]
    ELSE IF /\ rs[i].Phase = p
            /\ rs[i].Id \notin Range(t.RuleRemoveById)
            /\ ~(Interrupted(t) /\ p # LastPhaseNumber)
    THEN AfterRule(rs, p, i, Evaluate(rs[i], t, 0))
    ELSE RunPhaseRules(rs, t, p, i + 1)

\* phase p is complete with result cur: the cursor moves, on to the next phase
AfterPhase(rs, p, target, cur) ==
    Then(<<Ev("phase", 0, 0, p, <<>>, FALSE, FALSE, <<>>)>> \o cur.log,
         RunPhases(rs, [cur.tx EXCEPT !.LastPhase = p], p + 1, target))

\* the phases p..target in ascending order
RunPhases(rs, t, p, target) ==
    IF p > target THEN [tx |-> t, log |-> <<>>]
    ELSE AfterPhase(rs, p, target, RunPhaseRules(rs, t, p, 1))

\* ExecutePhaseResult that runs the target phase alone, without the phases skipped
ExecutePhaseOnlyTarget(rs, t, target) ==
    IF target <= t.LastPhase THEN [tx |-> t, log |-> <<>>]
    ELSE RunPhases(rs, t, target, target)

ExecutePhaseResult(rs, t, target) ==
    IF target <= t.LastPhase THEN [tx |-> t, log |-> <<>>]
    ELSE RunPhases(rs, t, t.LastPhase + 1, target)

----------------------------------------------------------------------------
(* Rule records and the rulesets explored *)

Var(count, collection, key, exceptions) ==
    [Count |-> count, Collection |-> collection, Key |-> key, Exceptions |-> exceptions]

Op(name, data, negation) == [Operator |-> name, Data |-> data, Negation |-> negation]

NewRule(id, parentId, phase, logFlag, variables, op, tfs, multi, actions, chain) ==
    [Id |-> id, ParentId |-> parentId, Phase |-> phase, Log |-> logFlag,
     Variables |-> variables, OperatorObj |-> op, Transformations |-> tfs,
     MultiMatch |-> multi, Actions |-> actions, Chain |-> chain,
     Msg |-> "msg", Status |-> 400 + id]

NoParam(type, name) == Act(type, name, 0, "", "", <<>>)
SetVar(k) == Act(ACTION_TYPE_NONDISRUPTIVE, "setvar", 0, "", k, <<"1">>)
CtlRemove(id) == Act(ACTION_TYPE_NONDISRUPTIVE, "ctlRuleRemoveById", id, "", "", <<>>)
Deny == NoParam(ACTION_TYPE_DISRUPTIVE, "deny")
Redirect == Act(ACTION_TYPE_DISRUPTIVE, "redirect", 0, "", "url", <<>>)
Skip == NoParam(ACTION_TYPE_FLOW, "skip")

BoundedSeq(S, n) == UNION {[1..k -> S] : k \in 0..n}

ArgEntries ==
    {[Key |-> "pw", Value |-> <<"A", " ">>],
     [Key |-> "q", Value |-> <<"a">>]}

ArgLists == BoundedSeq(ArgEntries, MaxArgs)

Methods == {<<"G">>, <<"P">>}

\* one head rule without chain: every shape of variable, operator and pipeline
PipelineActions ==
    <<NoParam(ACTION_TYPE_METADATA, "tag"), SetVar("seen"),
      NoParam(ACTION_TYPE_NONDISRUPTIVE, "capture"), Deny, Skip,
      NoParam(ACTION_TYPE_DATA, "logdata")>>

PipelineVariables ==
    {<<Var(FALSE, "args", "", <<>>)>>,
     <<Var(FALSE, "args", "pw", <<>>)>>,
     <<Var(TRUE, "args", "", <<>>)>>,
     <<Var(TRUE, "args", "pw", <<>>)>>,
     <<Var(FALSE, "args", "", <<"pw">>)>>,
     <<Var(FALSE, "args", "q", <<>>), Var(FALSE, "args", "pw", <<>>)>>}

PipelineOperators ==
    {Op(n, <<"a">>, neg) : n \in {"streq", "contains"}, neg \in BOOLEAN}
    \cup {Op("streq", <<"1">>, neg) : neg \in BOOLEAN}

PipelineTransformations == {<<>>, <<"lowercase">>, <<"lowercase", "removeWhitespace">>}

PipelineRulesets ==
    {<<NewRule(1, 0, 1, TRUE, vs, op, tfs, mm, PipelineActions, <<>>)>> :
        vs \in PipelineVariables, op \in PipelineOperators,
        tfs \in PipelineTransformations, mm \in BOOLEAN}

\* a head rule with a chain of up to MaxChain links, followed by a plain rule
LinkKinds == {"method", "removeSelf", "notA"}

Link(kind, id, chain) ==
    CASE kind = "method" ->
            NewRule(id, 1, 1, TRUE, <<Var(FALSE, "request_method", "", <<>>)>>,
                    Op("streq", <<"P">>, FALSE), <<>>, FALSE,
                    <<SetVar("link"), Deny, Skip>>, chain)
      [] kind = "removeSelf" ->
            NewRule(id, 1, 1, TRUE, <<Var(FALSE, "args", "", <<>>)>>,
                    Op("unconditionalMatch", <<>>, FALSE), <<>>, FALSE,
                    <<CtlRemove(id), Redirect>>, chain)
      [] OTHER ->
            NewRule(id, 1, 1, TRUE, <<Var(FALSE, "args", "q", <<>>)>>,
                    Op("streq", <<"a">>, TRUE), <<"lowercase">>, TRUE,
                    <<SetVar("notA")>>, chain)

RECURSIVE BuildChain(_, _)
BuildChain(kinds, id) ==
    IF kinds = <<>> THEN <<>>
    ELSE <<Link(Head(kinds), id, BuildChain(Tail(kinds), id + 1))>>

ChainHead(lg, kinds) ==
    NewRule(1, 0, 1, lg, <<Var(FALSE, "args", "", <<>>)>>,
            Op("contains", <<"a">>, FALSE), <<"lowercase">>, FALSE,
            <<SetVar("head"), Deny, Redirect, Skip>>, BuildChain(kinds, 2))

PlainRule(id, phase) ==
    NewRule(id, 0, phase, TRUE, <<Var(FALSE, "request_method", "", <<>>)>>,
            Op("unconditionalMatch", <<>>, FALSE), <<>>, FALSE, <<Deny>>, <<>>)

ChainRulesets ==
    {<<ChainHead(lg, kinds), PlainRule(9, 2)>> :
        lg \in BOOLEAN, kinds \in BoundedSeq(LinkKinds, MaxChain)}

\* MaxRules head rules spread over the phases, for the phase driver
DriverKinds == {"denyIfA", "removeNext"}

DriverPhases == {1, 2, LastPhaseNumber}

DriverRule(kind, id, phase) ==
    CASE kind = "denyIfA" ->
            NewRule(id, 0, phase, TRUE, <<Var(FALSE, "args", "", <<>>)>>,
                    Op("streq", <<"a">>, FALSE), <<>>, FALSE,
                    <<SetVar("logged"), Deny, Redirect>>, <<>>)
      [] OTHER ->
            NewRule(id, 0, phase, FALSE, <<Var(FALSE, "request_method", "", <<>>)>>,
                    Op("unconditionalMatch", <<>>, FALSE), <<>>, FALSE,
                    <<CtlRemove(id + 1), SetVar("seen")>>, <<>>)

DriverRulesets ==
    {[i \in 1..MaxRules |-> DriverRule(ks[i], i, ps[i])] :
        ks \in [1..MaxRules -> DriverKinds], ps \in [1..MaxRules -> DriverPhases]}

DriverArgLists == {<<>>, <<[Key |-> "q", Value |-> <<"a">>]>>}

----------------------------------------------------------------------------
(* Audit logger state *)

Writers == 1..MaxWriters
AuditTxIds == 1..MaxAuditTx
NoResult == [ret |-> "none", id |-> 0, json |-> FALSE, line |-> FALSE]

AuditInit ==
    /\ mux = 0
    /\ pc = [w \in Writers |-> "idle"]
    /\ wtx = [w \in Writers |-> 0]
    /\ dirs = {}
    /\ files = [t \in AuditTxIds |-> "none"]
    /\ auditlog = <<>>
    /\ result = [w \in Writers |-> NoResult]

----------------------------------------------------------------------------
(* The engine: the host drives one transaction through the phases *)

Init ==
    /\ \/ /\ rules \in PipelineRulesets
          /\ tx \in {NewTransaction(a, <<"G">>) : a \in ArgLists}
       \/ /\ rules \in ChainRulesets
          /\ tx \in {NewTransaction(a, m) : a \in ArgLists, m \in Methods}
       \/ /\ rules \in DriverRulesets
          /\ tx \in {NewTransaction(a, <<"G">>) : a \in DriverArgLists}
    /\ trace = <<>>
    /\ lastCall = 0
    /\ AuditInit

\* the host's call tx.ExecutePhase(n), with the result res of the driver
HostStep(n, res) ==
    /\ tx' = res.tx
    /\ trace' = trace \o res.log
    /\ lastCall' = n
    /\ rules' = RulesAfter(rules, res.log, 1)
    /\ UNCHANGED auditVars

ExecutePhase(n) == HostStep(n, ExecutePhaseResult(rules, tx, n))

Next == \E n \in 1..LastPhaseNumber : ExecutePhase(n)

Spec == Init /\ [][Next]_vars

\* the multi-match scenario: t:lowercase,t:removeWhitespace, multiMatch,
\* "@contains drop table", on the value "DROP TABLE users"
ScenarioInput == <<"D", "R", "O", "P", " ", "T", "A", "B", "L", "E", " ", "u", "s", "e", "r", "s">>

ScenarioRule ==
    NewRule(7, 0, 1, TRUE, <<Var(FALSE, "args", "", <<>>)>>,
            Op("contains", <<"d", "r", "o", "p", " ", "t", "a", "b", "l", "e">>, FALSE),
            <<"lowercase", "removeWhitespace">>, TRUE, <<SetVar("seen")>>, <<>>)

\* the count scenario: "&ARGS @streq 11" on a request with 11 arguments
CountScenarioArgs ==
    [k \in 1..11 |->
        IF k = 1 THEN [Key |-> "pw", Value |-> <<"A", " ">>]
        ELSE [Key |-> "k", Value |-> <<"a">>]]

CountScenarioRule ==
    NewRule(8, 0, 1, TRUE, <<Var(TRUE, "args", "", <<>>)>>,
            Op("streq", <<"1", "1">>, FALSE), <<>>, FALSE, <<SetVar("seen")>>, <<>>)

\* "&ARGS:pw @streq 2" with multi-match and two transformations
KeyCountRule ==
    NewRule(9, 0, 1, TRUE, <<Var(TRUE, "args", "pw", <<>>)>>,
            Op("streq", <<"2">>, FALSE), <<"lowercase", "removeWhitespace">>, TRUE,
            <<SetVar("seen")>>, <<>>)

\* the same engine on one family of rulesets: a single rule of every shape
PipelineInit ==
    /\ \/ /\ rules \in PipelineRulesets
          /\ tx \in {NewTransaction(a, <<"G">>) : a \in ArgLists}
       \/ /\ rules = <<ScenarioRule>>
          /\ tx = NewTransaction(<<[Key |-> "q", Value |-> ScenarioInput]>>, <<"G">>)
       \/ /\ rules = <<CountScenarioRule, KeyCountRule>>
          /\ tx = NewTransaction(CountScenarioArgs, <<"G">>)
    /\ trace = <<>>
    /\ lastCall = 0
    /\ AuditInit

PipelineSpec == PipelineInit /\ [][Next]_vars

\* the same engine on the chained rulesets
ChainInit ==
    /\ rules \in ChainRulesets
    /\ tx \in {NewTransaction(a, m) : a \in ArgLists, m \in Methods}
    /\ trace = <<>>
    /\ lastCall = 0
    /\ AuditInit

ChainSpec == ChainInit /\ [][Next]_vars

----------------------------------------------------------------------------
(* One ruleset shared by the transactions of successive requests *)

RemoveTarget(id, collection, key) ==
    Act(ACTION_TYPE_NONDISRUPTIVE, "ctlRuleRemoveTargetById", id, collection, key, <<>>)

\* declared with the exception "q": ARGS|!ARGS:q
TargetRule ==
    NewRule(2, 0, 2, TRUE, <<Var(FALSE, "args", "", <<"q">>)>>,
            Op("unconditionalMatch", <<>>, FALSE), <<>>, FALSE, <<SetVar("seen")>>, <<>>)

\* for a request with method P, removes the target ARGS:pw from TargetRule
RemoverRule ==
    NewRule(1, 0, 1, FALSE, <<Var(FALSE, "request_method", "", <<>>)>>,
            Op("streq", <<"P">>, FALSE), <<>>, FALSE,
            <<RemoveTarget(TargetRule.Id, "args", "pw")>>, <<>>)

SharedRuleset == <<RemoverRule, TargetRule>>

SharedArgLists ==
    {<<>>,
     <<[Key |-> "pw", Value |-> <<"A", " ">>]>>,
     <<[Key |-> "pw", Value |-> <<"A", " ">>], [Key |-> "q", Value |-> <<"a">>]>>}

SharedInit ==
    /\ rules = SharedRuleset
    /\ tx \in {NewTransaction(a, m) : a \in SharedArgLists, m \in Methods}
    /\ trace = <<>>
    /\ lastCall = 0
    /\ AuditInit

RequestsMade == 1 + Cardinality({k \in DOMAIN trace : trace[k].e = "request"})

\* the transaction is complete and the host creates the one of the next request
NewRequest(a, m) ==
    /\ tx.LastPhase = LastPhaseNumber
    /\ RequestsMade < MaxRequests
    /\ tx' = NewTransaction(a, m)
    /\ trace' = Append(trace, EvSimple("request", 0, 0))
    /\ lastCall' = 0
    /\ UNCHANGED <<rules, auditVars>>

SharedNext ==
    \/ Next
    \/ \E a \in SharedArgLists, m \in Methods : NewRequest(a, m)

SharedSpec == SharedInit /\ [][SharedNext]_vars

----------------------------------------------------------------------------
(* Rules whose first variable can resolve to no value *)

\* removes a target from rule 2: of ARGS, of another collection, or nothing
EmptyRemover(kind) ==
    NewRule(1, 0, 1, FALSE, <<Var(FALSE, "request_method", "", <<>>)>>,
            Op("unconditionalMatch", <<>>, FALSE), <<>>, FALSE,
            IF kind = "args" THEN <<RemoveTarget(2, "args", "pw")>>
            ELSE IF kind = "other" THEN <<RemoveTarget(2, "tx", "pw")>>
            ELSE <<SetVar("seen")>>,
            <<>>)

EmptyVariables ==
    {<<Var(FALSE, "args", "", <<>>), Var(FALSE, "request_method", "", <<>>)>>,
     <<Var(FALSE, "args", "", <<"pw", "q">>), Var(FALSE, "request_method", "", <<>>)>>,
     <<Var(FALSE, "args", "pw", <<>>), Var(FALSE, "request_method", "", <<>>)>>}

EmptyOperators == {Op("streq", data, neg) : data \in {<<>>, <<"0">>}, neg \in BOOLEAN}

EmptyRulesets ==
    {<<EmptyRemover(kind),
       NewRule(2, 0, 2, TRUE, vs, op, <<"length">>, mm, <<SetVar("seen")>>, <<>>)>> :
        kind \in {"none", "args", "other"}, vs \in EmptyVariables,
        op \in EmptyOperators, mm \in BOOLEAN}

EmptyInit ==
    /\ rules \in EmptyRulesets
    /\ tx \in {NewTransaction(a, <<"G">>) : a \in ArgLists}
    /\ trace = <<>>
    /\ lastCall = 0
    /\ AuditInit

EmptySpec == EmptyInit /\ [][Next]_vars

----------------------------------------------------------------------------
(* ConcurrentLogger.WriteAudit, one step per call it makes *)

AuditPath(t) == [logdir |-> "auditdir", fname |-> t]

ConciseLine(t) == [Id |-> t, Path |-> AuditPath(t)]

HasLine(t) == \E i \in DOMAIN auditlog : auditlog[i].Id = t

InFlight == Cardinality({w \in Writers : pc[w] # "idle"})

\* a return that runs l.mux.Unlock() only on the path that returns nil
ReturnKeepLock(w, ret, newFiles, appended) ==
    /\ mux' = IF ret = "nil" THEN 0 ELSE mux
    /\ pc' = [pc EXCEPT ![w] = "idle"]
    /\ result' = [result EXCEPT ![w] =
                     [ret |-> ret, id |-> wtx[w],
                      json |-> newFiles[wtx[w]] = "full", line |-> appended]]

\* the deferred l.mux.Unlock() together with the return
Return(w, ret, newFiles, appended) ==
    /\ mux' = 0
    /\ pc' = [pc EXCEPT ![w] = "idle"]
    /\ result' = [result EXCEPT ![w] =
                     [ret |-> ret, id |-> wtx[w],
                      json |-> newFiles[wtx[w]] = "full", line |-> appended]]

\* the host hands transaction t to the logger
WriteAuditCall(w, t) ==
    /\ pc[w] = "idle"
    /\ Len(auditlog) + InFlight < MaxLines
    /\ pc' = [pc EXCEPT ![w] = "Lock"]
    /\ wtx' = [wtx EXCEPT ![w] = t]
    /\ result' = [result EXCEPT ![w] = NoResult]
    /\ UNCHANGED <<mux, dirs, files, auditlog, engineVars>>

\* Lock that does not wait for the holder to release
LockNoWait(w) ==
    /\ pc[w] = "Lock"
    /\ mux' = w
    /\ pc' = [pc EXCEPT ![w] = "MkdirAll"]
    /\ UNCHANGED <<wtx, dirs, files, auditlog, result, engineVars>>

Lock(w) ==
    /\ pc[w] = "Lock"
    /\ mux = 0
    /\ mux' = w
    /\ pc' = [pc EXCEPT ![w] = "MkdirAll"]
    /\ UNCHANGED <<wtx, dirs, files, auditlog, result, engineVars>>

MkdirAll(w, ok) ==
    /\ pc[w] = "MkdirAll"
    /\ IF ok
       THEN /\ dirs' = dirs \cup {AuditPath(wtx[w]).logdir}
            /\ pc' = [pc EXCEPT ![w] = "WriteFile"]
            /\ UNCHANGED <<mux, result>>
       ELSE /\ Return(w, "err", files, FALSE)
            /\ UNCHANGED dirs
    /\ UNCHANGED <<wtx, files, auditlog, engineVars>>

\* ioutil.WriteFile: open with O_CREATE|O_TRUNC, write, close
WriteFile(w, outcome) ==
    /\ pc[w] = "WriteFile"
    /\ CASE outcome = "ok" ->
              /\ files' = [files EXCEPT ![wtx[w]] = "full"]
              /\ pc' = [pc EXCEPT ![w] = "auditloggerPrint"]
              /\ UNCHANGED <<mux, result>>
         [] outcome = "openFailed" ->
              /\ UNCHANGED files
              /\ Return(w, "err", files, FALSE)
         [] OTHER ->
              /\ files' = [files EXCEPT ![wtx[w]] = "partial"]
              /\ Return(w, "err", files', FALSE)
    /\ UNCHANGED <<wtx, dirs, auditlog, engineVars>>

\* l.auditlogger.Print(str) has no result: a failed write is not seen
auditloggerPrint(w, ok) ==
    /\ pc[w] = "auditloggerPrint"
    /\ auditlog' = IF ok THEN Append(auditlog, ConciseLine(wtx[w])) ELSE auditlog
    /\ Return(w, "nil", files, ok)
    /\ UNCHANGED <<wtx, dirs, files, engineVars>>

AuditNext ==
    \E w \in Writers :
        \/ \E t \in AuditTxIds : WriteAuditCall(w, t)
        \/ Lock(w)
        \/ \E ok \in BOOLEAN : MkdirAll(w, ok)
        \/ \E outcome \in {"ok", "openFailed", "writeFailed"} : WriteFile(w, outcome)
        \/ \E ok \in BOOLEAN : auditloggerPrint(w, ok)

AuditSpecInit ==
    /\ rules = <<>>
    /\ tx = NewTransaction(<<>>, <<"G">>)
    /\ trace = <<>>
    /\ lastCall = 0
    /\ AuditInit

AuditSpec == AuditSpecInit /\ [][AuditNext]_vars

\* every goroutine writes the transaction of its own request
OwnTx(w) == ((w - 1) % MaxAuditTx) + 1

FairNext ==
    \E w \in Writers :
        \/ WriteAuditCall(w, OwnTx(w))
        \/ Lock(w)
        \/ \E ok \in BOOLEAN : MkdirAll(w, ok)
        \/ \E outcome \in {"ok", "openFailed", "writeFailed"} : WriteFile(w, outcome)
        \/ \E ok \in BOOLEAN : auditloggerPrint(w, ok)

\* a goroutine inside WriteAudit keeps running; one blocked in l.mux.Lock()
\* gets the mutex once it has been free often enough (sync.Mutex hands the
\* mutex to the longest waiter in starvation mode)
Fairness ==
    \A w \in Writers :
        /\ SF_vars(Lock(w))
        /\ WF_vars(\E ok \in BOOLEAN : MkdirAll(w, ok))
        /\ WF_vars(\E outcome \in {"ok", "openFailed", "writeFailed"} : WriteFile(w, outcome))
        /\ WF_vars(\E ok \in BOOLEAN : auditloggerPrint(w, ok))

AuditFairSpec == AuditSpecInit /\ [][FairNext]_vars /\ Fairness

----------------------------------------------------------------------------
(* Reading the history *)

IsEv(k, e) == trace[k].e = e

Returns == {j \in DOMAIN trace : IsEv(j, "return")}

HeadReturns == {j \in Returns : trace[j].d = 0}

\* the entry that the return at j belongs to: the last entry at the same depth
EnterOf(j) ==
    CHOOSE i \in 1..j :
        /\ IsEv(i, "enter") /\ trace[i].d = trace[j].d
        /\ \A k \in (i + 1)..j : ~(IsEv(k, "enter") /\ trace[k].d = trace[j].d)

\* the events strictly inside the evaluation that returns at j
Inside(j) == (EnterOf(j) + 1)..(j - 1)

\* every rule of the ruleset, heads and links, by id
RECURSIVE LinksOf(_)
LinksOf(chain) == IF chain = <<>> THEN {} ELSE {chain[1]} \cup LinksOf(chain[1].Chain)

AllRules == UNION {{rules[i]} \cup LinksOf(rules[i].Chain) : i \in DOMAIN rules}

RuleOf(id) == CHOOSE r \in AllRules : r.Id = id

\* a link of the chain returned an empty list inside the head evaluation ending at j
LinkFailedIn(j) ==
    \E k \in Inside(j) : IsEv(k, "return") /\ trace[k].d > 0 /\ Len(trace[k].mds) = 0

DisruptiveOrFlowIn(j) ==
    \E k \in Inside(j) :
        /\ IsEv(k, "action")
        /\ trace[k].rule = trace[j].rule
        /\ trace[k].type \in {ACTION_TYPE_DISRUPTIVE, ACTION_TYPE_FLOW}

----------------------------------------------------------------------------
(* C1: when a link of a head rule's chain returns an empty match list, the *)
(* head's Evaluate returns an empty list, invokes none of its disruptive   *)
(* or flow actions, leaves the interruption as it was and appends nothing  *)
(* to tx.MatchedRules.                                                     *)
C1_ChainFailure ==
    \A j \in HeadReturns :
        LinkFailedIn(j) =>
            /\ Len(trace[j].mds) = 0
            /\ ~DisruptiveOrFlowIn(j)
            /\ \A k \in Inside(j) : ~IsEv(k, "MatchRule")
            /\ trace[j].snap[1].Interruption = trace[EnterOf(j)].snap[1].Interruption
            /\ trace[j].snap[1].MatchedRules = trace[EnterOf(j)].snap[1].MatchedRules

\* a head rule with the log flag and disruptive actions whose second link failed
C1_Witness ==
    \E j \in HeadReturns :
        /\ RuleOf(trace[j].rule).Log
        /\ \E k \in Inside(j) :
              IsEv(k, "return") /\ trace[k].d = 1 /\ Len(trace[k].mds) = 0
              /\ trace[k].rule = 3

----------------------------------------------------------------------------
\* the events of its own depth inside the evaluation that returns at j
OwnEvents(j) ==
    SelectSeq(SubSeq(trace, EnterOf(j) + 1, j - 1), LAMBDA ev : ev.d = trace[j].d)

\* the positions in r.Actions of the actions of the given type, in order
ActionsOfType(r, type) ==
    SelectSeq([k \in DOMAIN r.Actions |-> k], LAMBDA k : r.Actions[k].Type = type)

\* the positions of the non-disruptive actions invoked by the evaluation, in order
NonDisruptiveRun(j) ==
    LET evs == SelectSeq(OwnEvents(j), LAMBDA ev :
                   ev.e = "action" /\ ev.type = ACTION_TYPE_NONDISRUPTIVE)
    IN [k \in DOMAIN evs |-> evs[k].i]

AccumulatedMatch(j) == \E k \in Inside(j) : IsEv(k, "append") /\ trace[k].d = trace[j].d

(* C2: in every evaluation of a rule, head or link, that accumulates at    *)
(* least one match, each non-disruptive action of the rule is invoked      *)
(* exactly once, in declaration order, before any link of the chain is     *)
(* evaluated, even when the chain then fails; in an evaluation without a   *)
(* match none is invoked.                                                  *)
C2_NonDisruptiveOnce ==
    \A j \in Returns :
        IF AccumulatedMatch(j)
        THEN /\ NonDisruptiveRun(j) =
                    ActionsOfType(RuleOf(trace[j].rule), ACTION_TYPE_NONDISRUPTIVE)
             /\ \A k, c \in Inside(j) :
                    /\ IsEv(k, "action") /\ trace[k].d = trace[j].d
                    /\ trace[k].type = ACTION_TYPE_NONDISRUPTIVE
                    /\ IsEv(c, "enter") /\ trace[c].d = trace[j].d + 1
                    => k < c
        ELSE NonDisruptiveRun(j) = <<>>

\* a head whose chain failed ran its non-disruptive action, and so did a link
C2_Witness ==
    \E j \in HeadReturns :
        /\ LinkFailedIn(j)
        /\ Len(NonDisruptiveRun(j)) > 0
        /\ \E k \in Inside(j) :
              IsEv(k, "action") /\ trace[k].d = 1
              /\ trace[k].type = ACTION_TYPE_NONDISRUPTIVE

----------------------------------------------------------------------------
RECURSIVE ChainIds(_)
ChainIds(chain) == IF chain = <<>> THEN {} ELSE {chain[1].Id} \cup ChainIds(chain[1].Chain)

\* the operator, after negation, matched an argument in the evaluation returning at j
OperatorMatched(j) ==
    \E k \in Inside(j) : IsEv(k, "op") /\ trace[k].d = trace[j].d /\ trace[k].b

\* every link of the chain was evaluated by it and every such evaluation matched
ChainMatched(j) ==
    /\ \A id \in ChainIds(RuleOf(trace[j].rule).Chain) :
          \E k \in Inside(j) :
              IsEv(k, "return") /\ trace[k].d = trace[j].d + 1 /\ trace[k].rule = id
    /\ \A k \in Inside(j) :
          IsEv(k, "return") /\ trace[k].d = trace[j].d + 1 => Len(trace[k].mds) > 0

(* C7: Evaluate returns a non-empty list if and only if the rule's operator, *)
(* after negation, matched at least one argument of its variables and every  *)
(* link of its chain returned a non-empty list.                              *)
C7_NonEmptyIff ==
    \A j \in Returns :
        Len(trace[j].mds) > 0 <=> OperatorMatched(j) /\ ChainMatched(j)

\* a head with a chain of two links returned matches
C7_Witness ==
    \E j \in HeadReturns :
        /\ Len(trace[j].mds) > 0
        /\ Cardinality(ChainIds(RuleOf(trace[j].rule).Chain)) >= 2

----------------------------------------------------------------------------
\* the operator call at k is followed by the append of a match for its argument
CountedAsMatch(k) ==
    /\ k + 1 <= Len(trace)
    /\ IsEv(k + 1, "append")
    /\ trace[k + 1].rule = trace[k].rule
    /\ trace[k + 1].d = trace[k].d
    /\ trace[k + 1].mds[1].Value = trace[k].arg

Negated(k) == RuleOf(trace[k].rule).OperatorObj.Negation

(* C8: with the negation flag set, every argument the operator is run on   *)
(* (each transformed value, each intermediate value in multi-match mode,   *)
(* the empty string of an empty value list) is counted as a match if and   *)
(* only if the underlying operator returned false for that argument.       *)
C8_NegationPerArgument ==
    \A k \in DOMAIN trace :
        IsEv(k, "op") /\ Negated(k) => (CountedAsMatch(k) <=> ~trace[k].raw)

\* a negated rule ran its operator on the empty string and on the intermediate
\* values of one entry, with both outcomes
C8_Witness ==
    \E k \in DOMAIN trace :
        /\ IsEv(k, "op") /\ Negated(k) /\ ~trace[k].raw /\ CountedAsMatch(k)
        /\ k + 2 <= Len(trace)
        /\ IsEv(k + 2, "op") /\ trace[k + 2].raw /\ ~CountedAsMatch(k + 2)
        /\ \E e \in 1..k : IsEv(e, "op") /\ trace[e].arg = <<>>

----------------------------------------------------------------------------
(* Reading the history of the phase driver *)

Enters == {k \in DOMAIN trace : IsEv(k, "enter")}

HeadEnters == {k \in Enters : trace[k].d = 0}

\* the phase the driver is in at event k
PhaseAt(k) ==
    LET m == CHOOSE m \in 1..k :
                 IsEv(m, "phase") /\ \A n \in (m + 1)..k : ~IsEv(n, "phase")
    IN trace[m].i

Evaluations(id) == Cardinality({k \in HeadEnters : trace[k].rule = id})

IndexOf(id) == CHOOSE i \in DOMAIN rules : rules[i].Id = id

\* the calls of interrupt: the invocations of the actions that make one
InterruptCalls ==
    {k \in DOMAIN trace : IsEv(k, "action") /\ trace[k].name \in {"deny", "redirect"}}

FirstInterruptCall == CHOOSE k \in InterruptCalls : \A m \in InterruptCalls : k <= m

\* the interruption the call at k asks for
Requested(k) ==
    IF trace[k].name = "deny"
    THEN [Action |-> "deny", Status |-> RuleOf(trace[k].rule).Status, Data |-> "",
          RuleId |-> trace[k].rule]
    ELSE [Action |-> "redirect", Status |-> 302,
          Data |-> RuleOf(trace[k].rule).Actions[trace[k].i].K, RuleId |-> trace[k].rule]

(* C3: the interruption is latched: it is the one the first interrupt call *)
(* asked for, after every later call of the same rule, of a later rule or  *)
(* of a later phase; before the first call it is unset.                    *)
C3_InterruptionLatched ==
    IF InterruptCalls = {}
    THEN tx.Interruption = <<>>
    ELSE /\ tx.Interruption = <<Requested(FirstInterruptCall)>>
         /\ \A j \in Returns :
               j > FirstInterruptCall =>
                   trace[j].snap[1].Interruption = <<Requested(FirstInterruptCall)>>

\* two interrupt calls of one rule, then one of another rule in a later phase
C3_Witness ==
    \E k1, k2, k3 \in InterruptCalls :
        /\ k1 < k2 /\ k2 < k3
        /\ trace[k1].rule = trace[k2].rule
        /\ trace[k3].rule # trace[k1].rule
        /\ PhaseAt(k3) > PhaseAt(k1)
        /\ Requested(k3) # Requested(k1) /\ Requested(k2) # Requested(k1)

----------------------------------------------------------------------------
PhaseRuns(p) == Cardinality({k \in DOMAIN trace : IsEv(k, "phase") /\ trace[k].i = p})

LastPhaseRules == {i \in DOMAIN rules : rules[i].Phase = LastPhaseNumber}

(* C4: once the host has called ExecutePhase(5), phase 5 has been run      *)
(* exactly once, whether or not an interruption was set before: each       *)
(* phase-5 rule was evaluated once (never, if it was removed before its    *)
(* turn), and no later call evaluates it again; before that call no        *)
(* phase-5 rule is evaluated.                                              *)
C4_LastPhaseOnce ==
    /\ lastCall = LastPhaseNumber => tx.LastPhase = LastPhaseNumber
    /\ tx.LastPhase = LastPhaseNumber =>
          /\ PhaseRuns(LastPhaseNumber) = 1
          /\ \A i \in LastPhaseRules :
                /\ Evaluations(rules[i].Id) <= 1
                /\ rules[i].Id \notin Range(tx.RuleRemoveById) =>
                       Evaluations(rules[i].Id) = 1
    /\ tx.LastPhase < LastPhaseNumber =>
          /\ PhaseRuns(LastPhaseNumber) = 0
          /\ \A i \in LastPhaseRules : Evaluations(rules[i].Id) = 0

\* an interruption of an earlier phase is set and a phase-5 rule was evaluated
C4_Witness ==
    /\ lastCall = LastPhaseNumber
    /\ Interrupted(tx)
    /\ RuleOf(tx.Interruption[1].RuleId).Phase < LastPhaseNumber
    /\ \E i \in LastPhaseRules : Evaluations(rules[i].Id) = 1

----------------------------------------------------------------------------
(* C5: a rule is evaluated with the interruption set only in phase 5: once *)
(* the interruption is set, the remaining rules of the phase and the rules *)
(* of the later phases below 5 are skipped.                                *)
C5_SkipAfterInterruption ==
    \A k \in Enters :
        trace[k].snap[1].Interruption # <<>> => PhaseAt(k) = LastPhaseNumber

\* after all phases: a rule of the interrupted phase and a rule of a later phase
\* below 5, neither removed, were never evaluated
C5_Witness ==
    /\ tx.LastPhase = LastPhaseNumber
    /\ Interrupted(tx)
    /\ \E i1, i2 \in DOMAIN rules :
          /\ rules[i1].Phase = RuleOf(tx.Interruption[1].RuleId).Phase
          /\ rules[i2].Phase > rules[i1].Phase
          /\ rules[i2].Phase < LastPhaseNumber
          /\ \A i \in {i1, i2} :
                /\ Evaluations(rules[i].Id) = 0
                /\ rules[i].Id \notin Range(tx.RuleRemoveById)

----------------------------------------------------------------------------
PhasesRun ==
    LET evs == SelectSeq(trace, LAMBDA ev : ev.e = "phase")
    IN [k \in DOMAIN evs |-> evs[k].i]

\* the phases run so far are 1..cursor in ascending order, each once, and the
\* rules evaluated in a phase are rules of that phase, in declaration order
C6_Order ==
    /\ PhasesRun = [k \in 1..tx.LastPhase |-> k]
    /\ \A k \in HeadEnters : RuleOf(trace[k].rule).Phase = PhaseAt(k)
    /\ \A k1, k2 \in HeadEnters :
          k1 < k2 /\ PhaseAt(k1) = PhaseAt(k2) =>
              IndexOf(trace[k1].rule) < IndexOf(trace[k2].rule)
    /\ \A i \in DOMAIN rules : Evaluations(rules[i].Id) <= 1

\* a call ExecutePhase(n): with n above the cursor the cursor becomes n, and
\* with n at or below it nothing is evaluated and nothing changes
C6_Cursor ==
    IF lastCall' > tx.LastPhase
    THEN tx'.LastPhase = lastCall'
    ELSE tx' = tx /\ trace' = trace

(* C6: the phase cursor never decreases; ExecutePhase(n) with n above the  *)
(* cursor runs the phases cursor+1..n in ascending order, the rules of     *)
(* each phase in declaration order, and with n at or below the cursor it   *)
(* evaluates nothing; so the rules of a phase run at most once.            *)
C6_PhaseCursor == []C6_Order /\ [][C6_Cursor]_vars

\* phases the host skipped were caught up: a rule declared first ran after a
\* rule of an earlier phase declared later, and two rules shared a phase
C6_Witness ==
    /\ lastCall = LastPhaseNumber
    /\ \E k1, k2, k3 \in HeadEnters :
          /\ k1 < k2 /\ k2 < k3
          /\ PhaseAt(k1) = PhaseAt(k2)
          /\ PhaseAt(k2) < PhaseAt(k3)
          /\ IndexOf(trace[k3].rule) < IndexOf(trace[k1].rule)

----------------------------------------------------------------------------
(* Audit logger *)

AllReturned == \A w \in Writers : pc[w] = "idle"

(* C9: once every WriteAudit call has returned, whichever step failed, the *)
(* central audit file holds the concise line of a transaction if and only  *)
(* if the JSON file exists at the transaction's audit path.                *)
C9_LineIffJson ==
    AllReturned => \A t \in AuditTxIds : HasLine(t) <=> files[t] # "none"

(* C10: WriteAudit returns success only when both the JSON file and the    *)
(* concise line have been written: every failure of a step is returned to  *)
(* the host.                                                               *)
C10_FailureSurfaced ==
    \A w \in Writers : result[w].ret = "nil" => result[w].json /\ result[w].line

----------------------------------------------------------------------------
\* the call of w is inside the write sequence, between Lock and the return
InSequence(w) == pc[w] \in {"MkdirAll", "WriteFile", "auditloggerPrint"}

\* at most one call is inside the sequence, it holds the lock, and it reaches
\* the append only with its JSON file written in full
C11_Exclusive ==
    /\ Cardinality({w \in Writers : InSequence(w)}) <= 1
    /\ \A w \in Writers : InSequence(w) => mux = w
    /\ \A w \in Writers : pc[w] = "auditloggerPrint" => files[wtx[w]] = "full"

\* a line is appended only by the call that is at the append, for its own
\* transaction, whose JSON file is written
C11_Append ==
    auditlog' # auditlog =>
        \E w \in Writers :
            /\ pc[w] = "auditloggerPrint"
            /\ files[wtx[w]] = "full"
            /\ auditlog' = Append(auditlog, ConciseLine(wtx[w]))

\* between the JSON write of a call and its append no other call takes a step
\* of the sequence: another call can at most arrive and wait for the lock
C11_NoInterleaving ==
    \A w \in Writers :
        pc[w] = "auditloggerPrint" =>
            /\ files' = files /\ dirs' = dirs
            /\ \A o \in Writers \ {w} :
                  pc'[o] = pc[o] \/ (pc[o] = "idle" /\ pc'[o] = "Lock")

(* C11: WriteAudit calls on one logger exclude each other over the whole   *)
(* write sequence: at most one call is inside it at any time, and the      *)
(* concise line of a transaction is appended only after the JSON file of   *)
(* that transaction was written, with no step of another call in between.  *)
C11_MutualExclusion == []C11_Exclusive /\ [][C11_Append /\ C11_NoInterleaving]_vars

\* a call is between its JSON write and its append while a call for another
\* transaction waits for the lock
C11_Witness ==
    \E w, o \in Writers :
        /\ pc[w] = "auditloggerPrint" /\ pc[o] = "Lock"
        /\ wtx[w] # wtx[o]

----------------------------------------------------------------------------
TargetReturns == {j \in HeadReturns : trace[j].rule = TargetRule.Id}

\* the keys of ARGS that transaction t lets TargetRule see: all but the rule's
\* declared exceptions and the targets removed from the rule in t itself
VisibleKeys(t) ==
    {en.Key : en \in Range(t.Collections["args"])}
        \ (Range(TargetRule.Variables[1].Exceptions)
           \cup {c.Key : c \in {c \in Range(GetRemovedTargets(t, TargetRule.Id)) :
                                    c.Name = "args"}})

MatchedKeys(j) == {trace[j].mds[i].Key : i \in DOMAIN trace[j].mds}

\* every evaluation of TargetRule ran the operator on the entries visible in
\* its own transaction (on the empty string when there is none)
C12_OwnExceptions ==
    \A j \in TargetReturns :
        MatchedKeys(j) =
            IF VisibleKeys(trace[EnterOf(j)].snap[1]) = {} THEN {""}
            ELSE VisibleKeys(trace[EnterOf(j)].snap[1])

(* C12: Evaluate never modifies the shared Rule record: the ruleset is the *)
(* same after every step, in particular Variables[i].Exceptions after      *)
(* removed targets were added to the exceptions of an evaluation, so each  *)
(* transaction evaluating the rule sees its own exceptions only.           *)
C12_RulesetImmutable == []C12_OwnExceptions /\ [][rules' = rules]_vars

\* a transaction with the target ARGS:pw removed evaluated TargetRule, and then
\* a transaction without removed targets evaluated it on the entry pw
C12_Witness ==
    \E j1, j2 \in TargetReturns :
        /\ j1 < j2
        /\ GetRemovedTargets(trace[EnterOf(j1)].snap[1], TargetRule.Id) # <<>>
        /\ "pw" \in {en.Key : en \in Range(trace[EnterOf(j1)].snap[1].Collections["args"])}
        /\ "pw" \notin MatchedKeys(j1)
        /\ GetRemovedTargets(trace[EnterOf(j2)].snap[1], TargetRule.Id) = <<>>
        /\ "pw" \in MatchedKeys(j2)

----------------------------------------------------------------------------
\* the value after the first k transformations of r, in declaration order
RECURSIVE AfterTransformations(_, _, _)
AfterTransformations(r, value, k) ==
    IF k = 0 THEN value
    ELSE Transform(r.Transformations[k], AfterTransformations(r, value, k - 1))

\* the arguments the operator is to be run on for one value
PipelineArgs(r, value) ==
    IF r.MultiMatch
    THEN [k \in 1..(Len(r.Transformations) + 1) |-> AfterTransformations(r, value, k - 1)]
    ELSE <<AfterTransformations(r, value, Len(r.Transformations))>>

\* ... for the values of one variable: the empty string when there is none
VariableArgs(r, values) ==
    IF values = <<>> THEN << <<>> >>
    ELSE Flatten([k \in DOMAIN values |-> PipelineArgs(r, values[k].Value)])

\* ... for all variables of r in transaction t
ExpectedArgs(r, t) ==
    Flatten([k \in DOMAIN r.Variables |->
        VariableArgs(r, ResolveValues(t, r.Variables[k],
            EffectiveExceptions(r.Variables[k], GetRemovedTargets(t, r.Id))))])

\* the arguments of the operator calls of the evaluation returning at j, in order
OpArgs(j) ==
    LET evs == SelectSeq(OwnEvents(j), LAMBDA ev : ev.e = "op")
    IN [k \in DOMAIN evs |-> evs[k].arg]

Skipped(j) == j = EnterOf(j) + 1

\* one argument per value without multi-match, n + 1 with it, in order, and
\* every matching argument appends a match that carries it as its value
C13_Pipeline ==
    /\ \A j \in Returns :
          ~Skipped(j) =>
              OpArgs(j) = ExpectedArgs(RuleOf(trace[j].rule), trace[EnterOf(j)].snap[1])
    /\ \A k \in DOMAIN trace : IsEv(k, "op") /\ trace[k].b => CountedAsMatch(k)

ScenarioReturns == {j \in HeadReturns : trace[j].rule = ScenarioRule.Id}

(* C13 as stated: the pipeline as above, and in the scenario a single      *)
(* match is recorded, against "drop table users", which is the value after *)
(* both transformations.                                                   *)
C13_AfterBoth ==
    /\ C13_Pipeline
    /\ \A j \in ScenarioReturns :
          /\ Len(trace[j].mds) = 1
          /\ trace[j].mds[1].Value = Transform("lowercase", ScenarioInput)
          /\ trace[j].mds[1].Value = AfterTransformations(ScenarioRule, ScenarioInput, 2)

(* C13: without multi-match the operator is run on one argument per value, *)
(* the result of all transformations in order; with multi-match and n      *)
(* transformations on n + 1 arguments, the original and the value after    *)
(* each transformation, and every matching argument adds a match carrying  *)
(* that argument.  In the scenario a single match is recorded, against     *)
(* "drop table users", the value after the first transformation; the value *)
(* after both, "droptableusers", does not match.                           *)
C13_Intermediate ==
    /\ C13_Pipeline
    /\ \A j \in ScenarioReturns :
          /\ Len(trace[j].mds) = 1
          /\ trace[j].mds[1].Value = Transform("lowercase", ScenarioInput)
          /\ trace[j].mds[1].Value = AfterTransformations(ScenarioRule, ScenarioInput, 1)
          /\ OpArgs(j) = <<ScenarioInput,
                           AfterTransformations(ScenarioRule, ScenarioInput, 1),
                           AfterTransformations(ScenarioRule, ScenarioInput, 2)>>
          /\ ~OperatorEvaluate(ScenarioRule.OperatorObj,
                               AfterTransformations(ScenarioRule, ScenarioInput, 2))

\* the scenario rule was evaluated and returned its match
C13_Witness ==
    \E j \in ScenarioReturns : Len(trace[j].mds) = 1 /\ Len(OpArgs(j)) = 3

----------------------------------------------------------------------------
\* the evaluations of rules whose only variable has the count flag
CountReturns ==
    {j \in Returns :
        /\ ~Skipped(j)
        /\ Len(RuleOf(trace[j].rule).Variables) = 1
        /\ RuleOf(trace[j].rule).Variables[1].Count}

\* the entries of the collection that variable v selects in transaction t
Selected(v, t) ==
    SelectSeq(t.Collections[v.Collection], LAMBDA en :
        /\ (v.Key = "" \/ en.Key = v.Key)
        /\ en.Key \notin Range(v.Exceptions))

\* the number a count variable stands for
CountNumber(v, t) ==
    IF v.Key # "" /\ Len(Selected(v, t)) = 1
    THEN Itoa(Len(Selected(v, t)[1].Value))
    ELSE Itoa(Len(Selected(v, t)))

\* the operator is not run on the empty string, and a match of a variable
\* without key has an empty key
C14_NoEmptyString ==
    \A j \in CountReturns :
        /\ \A k \in DOMAIN OpArgs(j) : OpArgs(j)[k] # <<>>
        /\ \A k \in DOMAIN trace[j].mds :
              RuleOf(trace[j].rule).Variables[1].Key = "" => trace[j].mds[k].Key = ""

\* "&ARGS" with 11 arguments: the argument "11", one match with empty key
C14_Eleven ==
    \A j \in CountReturns :
        trace[j].rule = CountScenarioRule.Id =>
            /\ OpArgs(j) = << <<"1", "1">> >>
            /\ trace[j].mds = <<[Collection |-> "args", Key |-> "", Value |-> <<"1", "1">>]>>

(* C14 as stated: for a count variable the operator receives a single      *)
(* argument, the decimal number, and is never run on the empty string.     *)
C14_SingleArgument ==
    /\ C14_NoEmptyString
    /\ C14_Eleven
    /\ \A j \in CountReturns :
          OpArgs(j) = <<CountNumber(RuleOf(trace[j].rule).Variables[1],
                                    trace[EnterOf(j)].snap[1])>>

(* C14: a count variable resolves to a single value, the decimal count of  *)
(* the matching entries (0 when none), or the string length of the entry   *)
(* when a key is given and exactly one entry matches; the transformation   *)
(* pipeline is applied to that value, so the operator receives one         *)
(* argument without multi-match and n + 1 with it, never the empty string; *)
(* with no key the matches have an empty key.                              *)
C14_CountValue ==
    /\ C14_NoEmptyString
    /\ C14_Eleven
    /\ \A j \in CountReturns :
          /\ OpArgs(j) = PipelineArgs(RuleOf(trace[j].rule),
                                      CountNumber(RuleOf(trace[j].rule).Variables[1],
                                                  trace[EnterOf(j)].snap[1]))
          /\ ~RuleOf(trace[j].rule).MultiMatch => Len(OpArgs(j)) = 1

\* the 11 arguments were counted, and the length of the one entry of a key
\* was tested three times by a multi-match rule with two transformations
C14_Witness ==
    /\ \E j \in CountReturns :
          trace[j].rule = CountScenarioRule.Id /\ Len(trace[j].mds) = 1
    /\ \E j \in CountReturns :
          /\ trace[j].rule = KeyCountRule.Id
          /\ OpArgs(j) = << <<"2">>, <<"2">>, <<"2">> >>
          /\ Len(trace[j].mds) = 3

----------------------------------------------------------------------------
\* the entries variable v of rule id resolves to in transaction t: those of the
\* collection with the key, less the rule's exceptions and the targets removed
\* from this rule for this collection
Visible(v, t, id) ==
    SelectSeq(t.Collections[v.Collection], LAMBDA en :
        /\ (v.Key = "" \/ en.Key = v.Key)
        /\ en.Key \notin Range(v.Exceptions)
        /\ ~\E c \in Range(t.RemovedTargets) :
               c.RuleId = id /\ c.Name = v.Collection /\ c.Key = en.Key)

\* the empty string, once, for a variable without values; else the pipeline
VisibleArgs(r, t, v) ==
    IF Visible(v, t, r.Id) = <<>> THEN << <<>> >>
    ELSE Flatten([i \in DOMAIN Visible(v, t, r.Id) |->
                     PipelineArgs(r, Visible(v, t, r.Id)[i].Value)])

NonCountReturns ==
    {j \in Returns :
        /\ ~Skipped(j)
        /\ \A k \in DOMAIN RuleOf(trace[j].rule).Variables :
              ~RuleOf(trace[j].rule).Variables[k].Count}

(* C15: a variable without the count flag that resolves to no value (empty *)
(* collection, or all entries subtracted by the rule's exceptions or by    *)
(* the targets removed from this rule for the collection) has the operator *)
(* run exactly once, on the empty string, without transformations; a match *)
(* appends exactly one empty MatchData; then the next variable is handled. *)
C15_EmptyValues ==
    /\ \A j \in NonCountReturns :
          OpArgs(j) =
              Flatten([k \in DOMAIN RuleOf(trace[j].rule).Variables |->
                  VisibleArgs(RuleOf(trace[j].rule), trace[EnterOf(j)].snap[1],
                              RuleOf(trace[j].rule).Variables[k])])
    /\ \A k \in DOMAIN trace :
          IsEv(k, "op") /\ trace[k].arg = <<>> /\ trace[k].b =>
              /\ CountedAsMatch(k)
              /\ trace[k + 1].mds = <<EmptyMatchData>>
              /\ k + 2 <= Len(trace) => ~IsEv(k + 2, "append")

\* the only entries of ARGS were removed from the rule as targets; the operator
\* matched the empty string and then the value of the next variable
C15_Witness ==
    \E j \in NonCountReturns :
        /\ trace[j].rule = 2
        /\ GetRemovedTargets(trace[EnterOf(j)].snap[1], 2) # <<>>
        /\ trace[EnterOf(j)].snap[1].Collections["args"] # <<>>
        /\ RuleOf(2).Variables[1].Exceptions = <<>>
        /\ RuleOf(2).MultiMatch
        /\ Len(trace[j].mds) >= 2
        /\ trace[j].mds[1] = EmptyMatchData
        /\ trace[j].mds[2].Collection = "request_method"

----------------------------------------------------------------------------
\* the positions of the disruptive and flow actions invoked by the evaluation
\* returning at j, in the order of the calls
DisruptiveFlowRun(j) ==
    LET evs == SelectSeq(OwnEvents(j), LAMBDA ev :
                   ev.e = "action"
                   /\ ev.type \in {ACTION_TYPE_DISRUPTIVE, ACTION_TYPE_FLOW})
    IN [k \in DOMAIN evs |-> evs[k].i]

\* the positions in r.Actions of its disruptive and flow actions, in order
DisruptiveFlowOf(r) ==
    SelectSeq([k \in DOMAIN r.Actions |-> k], LAMBDA k :
        r.Actions[k].Type \in {ACTION_TYPE_DISRUPTIVE, ACTION_TYPE_FLOW})

(* C16: only the head rule (ParentId = 0) of a fully matched chain invokes *)
(* disruptive and flow actions, its own, in declaration order; a chained   *)
(* child never invokes its disruptive or flow actions and never appends to *)
(* tx.MatchedRules, even when it matches and has the log flag.             *)
C16_HeadOnly ==
    /\ \A j \in Returns :
          DisruptiveFlowRun(j) =
              IF RuleOf(trace[j].rule).ParentId = 0 /\ Len(trace[j].mds) > 0
              THEN DisruptiveFlowOf(RuleOf(trace[j].rule))
              ELSE <<>>
    /\ \A k \in DOMAIN trace :
          IsEv(k, "MatchRule") => RuleOf(trace[k].rule).ParentId = 0 /\ trace[k].d = 0
    /\ \A i \in DOMAIN tx.MatchedRules : RuleOf(tx.MatchedRules[i].Id).ParentId = 0

\* a child with the log flag and a disruptive action matched, and the head of
\* the fully matched chain then ran its two disruptive actions and its flow action
C16_Witness ==
    \E j \in HeadReturns :
        /\ Len(DisruptiveFlowRun(j)) = 3
        /\ \E k \in Inside(j) :
              /\ IsEv(k, "return") /\ trace[k].d = 1 /\ Len(trace[k].mds) > 0
              /\ RuleOf(trace[k].rule).Log
              /\ DisruptiveFlowOf(RuleOf(trace[k].rule)) # <<>>

----------------------------------------------------------------------------
\* the step of the evaluation an event of a successful head evaluation belongs to
StepOf(ev) ==
    CASE ev.e = "MatchVars" -> 4
      [] ev.e = "action" /\ ev.type = ACTION_TYPE_NONDISRUPTIVE -> 5
      [] ev.e = "SetCapturable" -> 6
      [] ev.e = "action" -> 8
      [] ev.e = "MatchRule" -> 9
      [] OTHER -> 0

\* the calls the head evaluation returning at j made itself, with their steps
OwnSteps(j) ==
    {k \in Inside(j) : trace[k].d = trace[j].d /\ StepOf(trace[k]) # 0}

(* C17: in a successful head evaluation the variable matches are recorded, *)
(* then the non-disruptive actions run, then the capturable flag is reset, *)
(* then the chain is evaluated, then the disruptive and flow actions run,  *)
(* and only then, with the log flag, the entry is appended to              *)
(* tx.MatchedRules.                                                        *)
C17_StepOrder ==
    \A j \in HeadReturns :
        Len(trace[j].mds) > 0 =>
            /\ \A k1, k2 \in OwnSteps(j) :
                  k1 < k2 => StepOf(trace[k1]) <= StepOf(trace[k2])
            /\ \A k \in OwnSteps(j), c \in Inside(j) :
                  IsEv(c, "enter") =>
                      IF StepOf(trace[k]) <= 6 THEN k < c ELSE c < k

----------------------------------------------------------------------------
\* the ids of the links of a chain, in chain order
RECURSIVE ChainSeq(_)
ChainSeq(chain) == IF chain = <<>> THEN <<>> ELSE <<chain[1].Id>> \o ChainSeq(chain[1].Chain)

\* how often the rule id was evaluated inside the evaluation returning at j
EvaluationsIn(j, id) ==
    Cardinality({k \in Inside(j) : IsEv(k, "enter") /\ trace[k].rule = id})

\* the first return of the rule id inside the evaluation returning at j
FirstReturnOf(j, id) ==
    CHOOSE k \in Inside(j) :
        /\ IsEv(k, "return") /\ trace[k].rule = id
        /\ \A m \in Inside(j) : IsEv(m, "return") /\ trace[m].rule = id => k <= m

\* the matches the evaluation returning at j appended for its own variables
OwnMatches(j) ==
    LET evs == SelectSeq(OwnEvents(j), LAMBDA ev : ev.e = "append")
    IN Flatten([k \in DOMAIN evs |-> evs[k].mds])

(* C18: in one evaluation of a head rule with a chain of k links, each     *)
(* link is evaluated at most once, exactly once when the chain matches,    *)
(* and the list the head returns holds the head's own matches followed by  *)
(* the matches of each link once, in chain order.                          *)
C18_LinksOnce ==
    \A j \in HeadReturns :
        /\ \A id \in ChainIds(RuleOf(trace[j].rule).Chain) : EvaluationsIn(j, id) <= 1
        /\ Len(trace[j].mds) > 0 =>
              /\ \A id \in ChainIds(RuleOf(trace[j].rule).Chain) : EvaluationsIn(j, id) = 1
              /\ trace[j].mds =
                    OwnMatches(j) \o
                    Flatten([i \in DOMAIN ChainSeq(RuleOf(trace[j].rule).Chain) |->
                        OwnMatches(FirstReturnOf(j, ChainSeq(RuleOf(trace[j].rule).Chain)[i]))])

----------------------------------------------------------------------------
\* the evaluations called with the rule's id in tx.RuleRemoveById
RemovedReturns ==
    {j \in Returns : trace[j].rule \in Range(trace[EnterOf(j)].snap[1].RuleRemoveById)}

(* C19: Evaluate called with the rule's id in tx.RuleRemoveById returns an *)
(* empty list and leaves the transaction as it was: the operator is not    *)
(* run, no action is invoked, the chain is not evaluated.                  *)
C19_SkipRemoved ==
    \A j \in RemovedReturns :
        /\ Len(trace[j].mds) = 0
        /\ Inside(j) = {}
        /\ trace[j].snap = trace[EnterOf(j)].snap

\* a rule with variables, actions and a matching operator was called after a
\* non-disruptive action had put its id in tx.RuleRemoveById
C19_Witness ==
    \E j \in RemovedReturns :
        /\ RuleOf(trace[j].rule).Actions # <<>>
        /\ \E k \in 1..(j - 1) :
              /\ IsEv(k, "action") /\ trace[k].name = "ctlRuleRemoveById"
              /\ \E a \in Range(RuleOf(trace[k].rule).Actions) :
                    a.Name = "ctlRuleRemoveById" /\ a.N = trace[j].rule

----------------------------------------------------------------------------
\* the mutex is held exactly by a call between its Lock and its return
HeldByCaller ==
    /\ mux # 0 => pc[mux] \in {"MkdirAll", "WriteFile", "auditloggerPrint"}
    /\ \A w \in Writers : pc[w] \in {"MkdirAll", "WriteFile", "auditloggerPrint"} => mux = w

(* C20: WriteAudit releases the lock on every return path (nil, MkdirAll   *)
(* error, WriteFile error): the mutex is held only by a call that has not  *)
(* returned, and under fair scheduling every call acquires the mutex and   *)
(* returns.                                                                *)
C20_LockReleased ==
    /\ []HeldByCaller
    /\ \A w \in Writers :
          /\ (pc[w] = "Lock") ~> (mux = w)
          /\ (pc[w] # "idle") ~> (pc[w] = "idle")

\* one call has returned an error and another call holds the mutex
C20_Witness ==
    \E w1, w2 \in Writers :
        /\ w1 # w2
        /\ pc[w1] = "idle" /\ result[w1].ret = "err"
        /\ mux = w2 /\ pc[w2] = "MkdirAll"

====
